---- MODULE Spec2Model ----
(***************************************************************************)
(* Model of the Zig <-> CPython compatibility shim: py_compat.c,           *)
(* py_compat.h and python_wrapper.h.  The shim forwards to the CPython C   *)
(* API; the runtime primitives it forwards to (declared in                 *)
(* python_wrapper.h lines 36-92) are modelled by their documented          *)
(* behaviour, the shim functions by their bodies.                          *)
(***************************************************************************)
EXTENDS Integers, FiniteSets, Sequences, TLC

VARIABLES
    refcnt,    \* ob_refcnt of every object of the runtime (0: deallocated)
    owned,     \* references the caller holds as "new references" and owes a release for
    err,       \* the runtime's error indicator ("none" when clear)
    cur,       \* the current PyThreadState of the calling thread (NULL when none)
    aborted,   \* the runtime has called Py_FatalError; the process is gone
    last,      \* the shim call that produced this state, its arguments and result
    before     \* refcnt as it was when that call was made

vars ==
    <<refcnt, owned, err, cur, aborted, last, before>>

-----------------------------------------------------------------------------
(* Bounds of the exploration *)

\* references the caller may hold at once
MaxOwned ==
    2

\* references the runtime itself holds on each of None, True, False
SingletonRefs ==
    2

-----------------------------------------------------------------------------
(* Handles *)

\* the C null pointer: "no result", "no thread state"
NULL ==
    "NULL"

Py_None ==
    "None"

Py_True ==
    "True"

Py_False ==
    "False"

Singletons ==
    {Py_None, Py_True, Py_False}

\* the objects the caller works with: the singletons, a capsule and three
\* callables
Objects ==
    Singletons \cup {"capsule", "fn_id", "fn_opt", "fn_raise"}

\* one object per built-in category, a dict subtype instance and the objects above
TypedObjects ==
    Objects \cup {"int0", "bytes", "coro", "dict", "odict", "float", "list",
                  "tuple", "str"}

\* ob_type of each object
TypeOf ==
    [o \in TypedObjects |->
        CASE o = "None"     -> "NoneType"
          [] o = "True"     -> "bool"
          [] o = "False"    -> "bool"
          [] o = "capsule"  -> "PyCapsule"
          [] o = "fn_id"    -> "function"
          [] o = "fn_opt"   -> "function"
          [] o = "fn_raise" -> "function"
          [] o = "int0"     -> "int"
          [] o = "bytes"    -> "bytes"
          [] o = "coro"     -> "coroutine"
          [] o = "dict"     -> "dict"
          [] o = "odict"    -> "OrderedDict"
          [] o = "float"    -> "float"
          [] o = "list"     -> "list"
          [] o = "tuple"    -> "tuple"
          [] o = "str"      -> "str"]

\* tp_base of each type: bool derives from int, OrderedDict from dict
Base ==
    [t \in {"NoneType", "bool", "int", "PyCapsule", "function", "bytes",
            "coroutine", "dict", "OrderedDict", "float", "list", "tuple",
            "str", "object"} |->
        CASE t = "bool"        -> "int"
          [] t = "OrderedDict" -> "dict"
          [] OTHER             -> "object"]

RECURSIVE PyType_IsSubtype(_, _)
\* walks the tp_base chain of a up to object
PyType_IsSubtype(a, b) ==
    IF a = b THEN TRUE
    ELSE IF a = "object" THEN FALSE
    ELSE PyType_IsSubtype(Base[a], b)

\* exact type match
Py_IS_TYPE(ob, type) ==
    TypeOf[ob] = type

\* is-instance match
PyObject_TypeCheck(ob, type) ==
    PyType_IsSubtype(TypeOf[ob], type)

\* C truth value of a comparison
CInt(b) ==
    IF b THEN 1 ELSE 0

PyBool_Check(o) ==
    CInt(Py_IS_TYPE(o, "bool"))

PyBytes_Check(o) ==
    CInt(PyObject_TypeCheck(o, "bytes"))

PyCapsule_CheckExact(o) ==
    CInt(Py_IS_TYPE(o, "PyCapsule"))

PyCoro_CheckExact(o) ==
    CInt(Py_IS_TYPE(o, "coroutine"))

PyDict_Check(o) ==
    CInt(PyObject_TypeCheck(o, "dict"))

PyFloat_Check(o) ==
    CInt(PyObject_TypeCheck(o, "float"))

PyList_Check(o) ==
    CInt(PyObject_TypeCheck(o, "list"))

PyLong_Check(o) ==
    CInt(PyObject_TypeCheck(o, "int"))

PyTuple_Check(o) ==
    CInt(PyObject_TypeCheck(o, "tuple"))

PyUnicode_Check(o) ==
    CInt(PyObject_TypeCheck(o, "str"))

-----------------------------------------------------------------------------
(* Reference counts *)

Py_INCREF(rc, o) ==
    [rc EXCEPT ![o] = @ + 1]

\* at zero the runtime deallocates the object
Py_DECREF(rc, o) ==
    [rc EXCEPT ![o] = @ - 1]

Live(o) ==
    o \in DOMAIN refcnt /\ refcnt[o] > 0

RECURSIVE Sum(_, _)
Sum(f, S) ==
    IF S = {} THEN 0
    ELSE LET x == CHOOSE y \in S : TRUE
         IN  f[x] + Sum(f, S \ {x})

Held ==
    Sum(owned, DOMAIN owned)

\* the caller records a new reference it received
Receive(o) ==
    [owned EXCEPT ![o] = @ + 1]

\* the caller gives up one reference it holds
Release(o) ==
    [owned EXCEPT ![o] = @ - 1]

\* the record of a shim call
Call(op, a1, a2, ret, ival, nargs, out) ==
    [op |-> op, a1 |-> a1, a2 |-> a2, ret |-> ret, ival |-> ival,
     nargs |-> nargs, out |-> out]

\* the calling thread holds a thread state and the process is alive
Ready ==
    ~aborted /\ cur # NULL /\ err = "none"

-----------------------------------------------------------------------------
(* Initial states *)

InitRefcnt(U) ==
    [o \in U |-> IF o \in Singletons THEN SingletonRefs ELSE 1]

\* the caller starts with borrowed handles only
InitOwned(U) ==
    [o \in U |-> 0]

ThreadStates ==
    {"ts1", "ts2"}

\* the interpreter each thread state belongs to
InterpOf ==
    [ts \in ThreadStates |-> IF ts = "ts1" THEN "interp_main" ELSE "interp_sub"]

NoCall ==
    Call("init", NULL, NULL, NULL, -1, -1, "n/a")

Init ==
    /\ refcnt = InitRefcnt(Objects)
    /\ owned = InitOwned(Objects)
    /\ err = "none"
    /\ cur = "ts1"
    /\ aborted = FALSE
    /\ last = NoCall
    /\ before = refcnt

InitTypes ==
    /\ refcnt = InitRefcnt(TypedObjects)
    /\ owned = InitOwned(TypedObjects)
    /\ err = "none"
    /\ cur = "ts1"
    /\ aborted = FALSE
    /\ last = NoCall
    /\ before = refcnt

-----------------------------------------------------------------------------
(* py_compat.c (py_compat.h repeats the accessors, zig_isNone and the call) *)

\* Py_INCREF(singleton); return singleton;
GetNewRef(name, singleton) ==
    /\ Ready
    /\ Live(singleton)
    /\ Held < MaxOwned
    /\ refcnt' = Py_INCREF(refcnt, singleton)
    /\ owned' = Receive(singleton)
    /\ before' = refcnt
    /\ last' = Call(name, NULL, NULL, singleton, -1, -1, "n/a")
    /\ UNCHANGED <<err, cur, aborted>>

\* faulty variant: the handle is returned without Py_INCREF
zig_get_py_none_borrowed ==
    /\ Ready
    /\ Live(Py_None)
    /\ Held < MaxOwned
    /\ owned' = Receive(Py_None)
    /\ before' = refcnt
    /\ last' = Call("zig_get_py_none", NULL, NULL, Py_None, -1, -1, "n/a")
    /\ UNCHANGED <<refcnt, err, cur, aborted>>

zig_get_py_none ==
    GetNewRef("zig_get_py_none", Py_None)

zig_get_py_true ==
    GetNewRef("zig_get_py_true", Py_True)

zig_get_py_false ==
    GetNewRef("zig_get_py_false", Py_False)

\* return obj == Py_None;
IsNone(name, obj) ==
    /\ Ready
    /\ obj = NULL \/ Live(obj)
    /\ before' = refcnt
    /\ last' = Call(name, obj, NULL, NULL, CInt(obj = Py_None), -1, "n/a")
    /\ UNCHANGED <<refcnt, owned, err, cur, aborted>>

\* faulty variant: a truth-value test instead of the identity test
zig_is_py_none_falsy(obj) ==
    /\ Ready
    /\ obj = NULL \/ Live(obj)
    /\ before' = refcnt
    /\ last' = Call("zig_is_py_none", obj, NULL, NULL,
                    CInt(obj \in {Py_None, Py_False}), -1, "n/a")
    /\ UNCHANGED <<refcnt, owned, err, cur, aborted>>

zig_is_py_none(obj) ==
    IsNone("zig_is_py_none", obj)

RECURSIVE UntilNull(_)
\* the variadic arguments up to the terminating NULL
UntilNull(va) ==
    IF va = <<>> \/ Head(va) = NULL THEN <<>>
    ELSE <<Head(va)>> \o UntilNull(Tail(va))

\* The runtime's call: the result (a new reference) or NULL with the error
\* indicator set.  fn_id is "lambda x: x", fn_opt is "def f(x=None): return None",
\* fn_raise is "def f(*a): raise ValueError".
PyObject_CallFunctionObjArgs(rc, callable, va) ==
    LET args == UntilNull(va)
        n    == Len(args)
        fail(exc, nargs, out) ==
            [res |-> NULL, exc |-> exc, nargs |-> nargs, out |-> out, rc |-> rc]
        ok(res) ==
            [res |-> res, exc |-> "none", nargs |-> n, out |-> "returned",
             rc |-> Py_INCREF(rc, res)]
    IN  IF callable = NULL THEN fail("SystemError", -1, "notcallable")
        ELSE IF TypeOf[callable] # "function" THEN fail("TypeError", -1, "notcallable")
        ELSE IF callable = "fn_raise" THEN fail("ValueError", n, "raised")
        ELSE IF callable = "fn_opt" THEN ok(Py_None)
        ELSE IF n = 1 THEN ok(args[1])
        ELSE fail("TypeError", n, "raised")

\* faulty variant: the error indicator is cleared before returning
zig_call_function_with_arg_clearing(func, arg) ==
    /\ Ready
    /\ func = NULL \/ Live(func)
    /\ arg = NULL \/ Live(arg)
    /\ Held < MaxOwned
    /\ LET r == PyObject_CallFunctionObjArgs(refcnt, func, <<arg, NULL>>)
       IN  /\ refcnt' = r.rc
           /\ err' = "none"
           /\ owned' = IF r.res # NULL THEN Receive(r.res) ELSE owned
           /\ last' = Call("zig_call_function_with_arg", func, arg, r.res, -1,
                           r.nargs, r.out)
    /\ before' = refcnt
    /\ UNCHANGED <<cur, aborted>>

\* faulty variant: the argument's reference is released after the call
zig_call_function_with_arg_stealing(func, arg) ==
    /\ Ready
    /\ func = NULL \/ Live(func)
    /\ arg = NULL \/ Live(arg)
    /\ Held < MaxOwned
    /\ LET r == PyObject_CallFunctionObjArgs(refcnt, func, <<arg, NULL>>)
       IN  /\ refcnt' = IF arg = NULL THEN r.rc ELSE Py_DECREF(r.rc, arg)
           /\ err' = r.exc
           /\ owned' = IF r.res # NULL THEN Receive(r.res) ELSE owned
           /\ last' = Call("zig_call_function_with_arg", func, arg, r.res, -1,
                           r.nargs, r.out)
    /\ before' = refcnt
    /\ UNCHANGED <<cur, aborted>>

\* faulty variant: the argument is left out of the variadic list
zig_call_function_with_arg_noargs(func, arg) ==
    /\ Ready
    /\ func = NULL \/ Live(func)
    /\ arg = NULL \/ Live(arg)
    /\ Held < MaxOwned
    /\ LET r == PyObject_CallFunctionObjArgs(refcnt, func, <<NULL>>)
       IN  /\ refcnt' = r.rc
           /\ err' = r.exc
           /\ owned' = IF r.res # NULL THEN Receive(r.res) ELSE owned
           /\ last' = Call("zig_call_function_with_arg", func, arg, r.res, -1,
                           r.nargs, r.out)
    /\ before' = refcnt
    /\ UNCHANGED <<cur, aborted>>

\* return PyObject_CallFunctionObjArgs(func, arg, NULL);
zig_call_function_with_arg(func, arg) ==
    /\ Ready
    /\ func = NULL \/ Live(func)
    /\ arg = NULL \/ Live(arg)
    /\ Held < MaxOwned
    /\ LET r == PyObject_CallFunctionObjArgs(refcnt, func, <<arg, NULL>>)
       IN  /\ refcnt' = r.rc
           /\ err' = r.exc
           /\ owned' = IF r.res # NULL THEN Receive(r.res) ELSE owned
           /\ last' = Call("zig_call_function_with_arg", func, arg, r.res, -1,
                           r.nargs, r.out)
    /\ before' = refcnt
    /\ UNCHANGED <<cur, aborted>>

\* return PyThreadState_Get();  a fatal error when there is no current state
zig_py_thread_state_get ==
    /\ ~aborted
    /\ err = "none"
    /\ aborted' = (cur = NULL)
    /\ before' = refcnt
    /\ last' = Call("zig_py_thread_state_get", NULL, NULL,
                    IF cur = NULL THEN "ABORT" ELSE cur, -1, -1, "n/a")
    /\ UNCHANGED <<refcnt, owned, err, cur>>

\* faulty variant: the new state is installed and returned, the previous one lost
zig_py_thread_state_swap_returns_new(new_thread_state) ==
    /\ ~aborted
    /\ err = "none"
    /\ cur' = new_thread_state
    /\ before' = refcnt
    /\ last' = Call("zig_py_thread_state_swap", new_thread_state, NULL,
                    new_thread_state, -1, -1, "n/a")
    /\ UNCHANGED <<refcnt, owned, err, aborted>>

\* return PyThreadState_Swap(new_thread_state);
zig_py_thread_state_swap(new_thread_state) ==
    /\ ~aborted
    /\ err = "none"
    /\ cur' = new_thread_state
    /\ before' = refcnt
    /\ last' = Call("zig_py_thread_state_swap", new_thread_state, NULL, cur,
                    -1, -1, "n/a")
    /\ UNCHANGED <<refcnt, owned, err, aborted>>

\* return PyThreadState_GetInterpreter(thread_state);
zig_py_thread_state_get_interp(thread_state) ==
    /\ ~aborted
    /\ err = "none"
    /\ before' = refcnt
    /\ last' = Call("zig_py_thread_state_get_interp", thread_state, NULL,
                    InterpOf[thread_state], -1, -1, "n/a")
    /\ UNCHANGED <<refcnt, owned, err, cur, aborted>>

\* Py_INCREF(obj);
IncRef(name, obj) ==
    /\ Ready
    /\ Live(obj)
    /\ Held < MaxOwned
    /\ refcnt' = Py_INCREF(refcnt, obj)
    /\ owned' = Receive(obj)
    /\ before' = refcnt
    /\ last' = Call(name, obj, NULL, NULL, -1, -1, "n/a")
    /\ UNCHANGED <<err, cur, aborted>>

\* Py_DECREF(obj);  the caller releases a reference it holds.  The singletons
\* are static objects: the runtime ends the process when one is deallocated.
DecRef(name, obj) ==
    /\ Ready
    /\ Live(obj)
    /\ owned[obj] > 0
    /\ refcnt' = Py_DECREF(refcnt, obj)
    /\ owned' = Release(obj)
    /\ aborted' = (obj \in Singletons /\ refcnt'[obj] = 0)
    /\ before' = refcnt
    /\ last' = Call(name, obj, NULL, NULL, -1, -1, "n/a")
    /\ UNCHANGED <<err, cur>>

\* faulty variant: the decrement forwards to Py_INCREF
zig_py_decref_as_incref(obj) ==
    /\ Ready
    /\ Live(obj)
    /\ owned[obj] > 0
    /\ refcnt' = Py_INCREF(refcnt, obj)
    /\ owned' = Release(obj)
    /\ before' = refcnt
    /\ last' = Call("zig_py_decref", obj, NULL, NULL, -1, -1, "n/a")
    /\ UNCHANGED <<err, cur, aborted>>

zig_py_incref(obj) ==
    IncRef("zig_py_incref", obj)

zig_py_decref(obj) ==
    DecRef("zig_py_decref", obj)

\* return Py<X>_Check(obj);
TypeCheck(name, obj, answer) ==
    /\ Ready
    /\ Live(obj)
    /\ before' = refcnt
    /\ last' = Call(name, obj, NULL, NULL, answer, -1, "n/a")
    /\ UNCHANGED <<refcnt, owned, err, cur, aborted>>

zig_py_bool_check(obj) ==
    TypeCheck("zig_py_bool_check", obj, PyBool_Check(obj))

zig_py_bytes_check(obj) ==
    TypeCheck("zig_py_bytes_check", obj, PyBytes_Check(obj))

zig_py_capsule_check_exact(obj) ==
    TypeCheck("zig_py_capsule_check_exact", obj, PyCapsule_CheckExact(obj))

zig_py_coro_check_exact(obj) ==
    TypeCheck("zig_py_coro_check_exact", obj, PyCoro_CheckExact(obj))

\* faulty variant: the exact-type test PyDict_CheckExact
zig_py_dict_check_exact(obj) ==
    TypeCheck("zig_py_dict_check", obj, CInt(Py_IS_TYPE(obj, "dict")))

zig_py_dict_check(obj) ==
    TypeCheck("zig_py_dict_check", obj, PyDict_Check(obj))

zig_py_float_check(obj) ==
    TypeCheck("zig_py_float_check", obj, PyFloat_Check(obj))

zig_py_list_check(obj) ==
    TypeCheck("zig_py_list_check", obj, PyList_Check(obj))

zig_py_long_check(obj) ==
    TypeCheck("zig_py_long_check", obj, PyLong_Check(obj))

zig_py_tuple_check(obj) ==
    TypeCheck("zig_py_tuple_check", obj, PyTuple_Check(obj))

zig_py_unicode_check(obj) ==
    TypeCheck("zig_py_unicode_check", obj, PyUnicode_Check(obj))

-----------------------------------------------------------------------------
(* python_wrapper.h *)

\* return singleton;  no Py_INCREF.  The caller treats the handle as the
\* accessor contract says, as a reference it must release.
GetBorrowed(name, singleton) ==
    /\ Ready
    /\ Live(singleton)
    /\ Held < MaxOwned
    /\ owned' = Receive(singleton)
    /\ before' = refcnt
    /\ last' = Call(name, NULL, NULL, singleton, -1, -1, "n/a")
    /\ UNCHANGED <<refcnt, err, cur, aborted>>

zig_getPyNone ==
    GetBorrowed("zig_getPyNone", Py_None)

zig_getPyTrue ==
    GetBorrowed("zig_getPyTrue", Py_True)

zig_getPyFalse ==
    GetBorrowed("zig_getPyFalse", Py_False)

zig_incref(obj) ==
    IncRef("zig_incref", obj)

zig_decref(obj) ==
    DecRef("zig_decref", obj)

zig_isNone(obj) ==
    IsNone("zig_isNone", obj)

-----------------------------------------------------------------------------
(* The caller *)

\* the caller inspects and clears the error indicator after a failed call
PyErr_Clear ==
    /\ ~aborted
    /\ err # "none"
    /\ err' = "none"
    /\ before' = refcnt
    /\ last' = Call("PyErr_Clear", NULL, NULL, NULL, -1, -1, "n/a")
    /\ UNCHANGED <<refcnt, owned, cur, aborted>>

Handles ==
    DOMAIN refcnt \cup {NULL}

TypeChecks ==
    \E obj \in DOMAIN refcnt :
        \/ zig_py_bool_check(obj)
        \/ zig_py_bytes_check(obj)
        \/ zig_py_capsule_check_exact(obj)
        \/ zig_py_coro_check_exact(obj)
        \/ zig_py_dict_check(obj)
        \/ zig_py_float_check(obj)
        \/ zig_py_list_check(obj)
        \/ zig_py_long_check(obj)
        \/ zig_py_tuple_check(obj)
        \/ zig_py_unicode_check(obj)

\* a caller linked against py_compat.c that counts references through either
\* copy's incref/decref
Next ==
    \/ zig_get_py_none
    \/ zig_get_py_true
    \/ zig_get_py_false
    \/ \E obj \in Handles : zig_is_py_none(obj)
    \/ \E func \in Handles, arg \in Handles : zig_call_function_with_arg(func, arg)
    \/ zig_py_thread_state_get
    \/ \E ts \in ThreadStates \cup {NULL} : zig_py_thread_state_swap(ts)
    \/ \E ts \in ThreadStates : zig_py_thread_state_get_interp(ts)
    \/ \E obj \in DOMAIN refcnt : zig_py_incref(obj)
    \/ \E obj \in DOMAIN refcnt : zig_py_decref(obj)
    \/ TypeChecks
    \/ \E obj \in DOMAIN refcnt : zig_incref(obj)
    \/ \E obj \in DOMAIN refcnt : zig_decref(obj)
    \/ \E obj \in Handles : zig_isNone(obj)
    \/ PyErr_Clear

\* a caller that includes python_wrapper.h alone
NextWrapper ==
    \/ zig_getPyNone
    \/ zig_getPyTrue
    \/ zig_getPyFalse
    \/ \E obj \in DOMAIN refcnt : zig_incref(obj)
    \/ \E obj \in DOMAIN refcnt : zig_decref(obj)
    \/ \E obj \in Handles : zig_isNone(obj)

Spec ==
    Init /\ [][Next]_vars

SpecWrapper ==
    Init /\ [][NextWrapper]_vars

\* the type-check predicates over one object of every category
SpecTypes ==
    InitTypes /\ [][TypeChecks]_vars

-----------------------------------------------------------------------------
(* Properties *)

Accessors ==
    {<<"zig_get_py_none", "None">>, <<"zig_get_py_true", "True">>,
     <<"zig_get_py_false", "False">>}

\* C1: each singleton accessor of py_compat.c returns the canonical None, True
\* or False handle, raises that handle's reference count by exactly one over
\* its value before the call, and leaves every other object's count as it was.
C1_AccessorAddsOneReference ==
    [][\A acc \in Accessors :
          last'.op = acc[1] =>
              /\ last'.ret = acc[2]
              /\ refcnt'[acc[2]] = refcnt[acc[2]] + 1
              /\ \A o \in DOMAIN refcnt \ {acc[2]} : refcnt'[o] = refcnt[o]]_vars

\* C1 witness: zig_get_py_none has been called as often as the caller may hold
\* references, each call adding one to None's count.
C1_Witness ==
    /\ last.op = "zig_get_py_none"
    /\ last.ret = "None"
    /\ before["None"] = SingletonRefs + MaxOwned - 1
    /\ refcnt["None"] = SingletonRefs + MaxOwned

\* the callee completes without raising: fn_opt takes zero or one argument,
\* fn_id exactly one
Completes(func, arg) ==
    func = "fn_opt" \/ (func = "fn_id" /\ arg # "NULL")

\* the exception the runtime raises for a call that does not complete
Raised(func, arg) ==
    IF func = "NULL" THEN "SystemError"
    ELSE IF func = "fn_raise" THEN "ValueError"
    ELSE "TypeError"

\* C2: zig_call_function_with_arg returns a non-NULL new reference (its count
\* one higher, the error indicator clear) when the callable completes without
\* raising, and returns NULL when the callable raises or is not callable; then
\* the error indicator holds the exception the runtime raised: the shim has
\* neither cleared nor replaced it.
C2_CallResultOrError ==
    [][last'.op = "zig_call_function_with_arg" =>
          IF Completes(last'.a1, last'.a2)
          THEN /\ last'.ret # "NULL"
               /\ refcnt'[last'.ret] = refcnt[last'.ret] + 1
               /\ owned'[last'.ret] = owned[last'.ret] + 1
               /\ err' = "none"
          ELSE /\ last'.ret = "NULL"
               /\ err' = Raised(last'.a1, last'.a2)
               /\ refcnt' = refcnt
               /\ owned' = owned]_vars

\* C2 witness: a callable that raises was called with a real argument; NULL
\* came back and the error indicator is set.
C2_Witness ==
    /\ last.op = "zig_call_function_with_arg"
    /\ last.a1 = "fn_raise"
    /\ last.a2 = "capsule"
    /\ last.ret = "NULL"
    /\ err = "ValueError"

\* C3 as stated: zig_py_thread_state_swap(new) returns the state that was
\* current before the call, a zig_py_thread_state_get issued right after
\* returns new, for every new including NULL, and swapping the returned state
\* back in restores the original.
C3_SwapThenGetReturnsNew ==
    [][/\ last'.op = "zig_py_thread_state_swap" =>
              last'.ret = cur /\ cur' = last'.a1
       /\ (last.op = "zig_py_thread_state_swap"
             /\ last'.op = "zig_py_thread_state_get") =>
              last'.ret = last.a1
       /\ (last.op = "zig_py_thread_state_swap"
             /\ last'.op = "zig_py_thread_state_swap"
             /\ last'.a1 = last.ret) =>
              cur' = last.ret]_vars

\* C3 amended: the swap returns the previously current state and installs new
\* for every new, and swapping the returned state back in restores the
\* original; a get issued right after returns new when new is a thread state,
\* and when new is NULL the get does not return: the runtime ends the process
\* with a fatal error.
C3_SwapThenGetUnlessNull ==
    [][/\ last'.op = "zig_py_thread_state_swap" =>
              last'.ret = cur /\ cur' = last'.a1
       /\ (last.op = "zig_py_thread_state_swap"
             /\ last'.op = "zig_py_thread_state_get") =>
              IF last.a1 = "NULL"
              THEN aborted' /\ last'.ret = "ABORT"
              ELSE ~aborted' /\ last'.ret = last.a1 /\ cur' = last.a1
       /\ (last.op = "zig_py_thread_state_swap"
             /\ last'.op = "zig_py_thread_state_swap"
             /\ last'.a1 = last.ret) =>
              cur' = last.ret]_vars

\* C3 witness: after a swap to ts2 the get returned ts2 (the initial current
\* state is ts1, so only a swap can have installed ts2).
C3_Witness ==
    /\ last.op = "zig_py_thread_state_get"
    /\ last.ret = "ts2"
    /\ cur = "ts2"
    /\ ~aborted

Increfs ==
    {"zig_py_incref", "zig_incref"}

Decrefs ==
    {"zig_py_decref", "zig_decref"}

\* C4: for a live handle h, an incref of h followed immediately by a decref of
\* h (through either copy) leaves every reference count, h's included, at its
\* value before the pair, and h is not deallocated.
C4_IncrefDecrefRestores ==
    [][(last.op \in Increfs /\ last'.op \in Decrefs /\ last'.a1 = last.a1) =>
          /\ refcnt' = before
          /\ refcnt'[last.a1] > 0
          /\ ~aborted']_vars

\* C4 witness: the capsule, whose only reference the runtime holds, went from
\* count 1 to 2 and back to 1 through zig_py_incref and zig_py_decref.
C4_Witness ==
    /\ last.op = "zig_py_decref"
    /\ last.a1 = "capsule"
    /\ before["capsule"] = 2
    /\ refcnt["capsule"] = 1
    /\ owned["capsule"] = 0

\* C5: zig_is_py_none and zig_isNone answer 1 exactly when the handle is the
\* None singleton itself and 0 for every other handle (False, NULL, callables,
\* ...), whatever its type or reference count.
C5_IsNoneIsIdentity ==
    last.op \in {"zig_is_py_none", "zig_isNone"} =>
        last.ival = (IF last.a1 = "None" THEN 1 ELSE 0)

\* C5 witness: the falsy singleton False was tested while its count was above
\* the initial one, and the answer was 0.
C5_Witness ==
    /\ last.op = "zig_is_py_none"
    /\ last.a1 = "False"
    /\ refcnt["False"] > SingletonRefs
    /\ last.ival = 0

\* the built-in category each predicate is named after
Named ==
    [op \in {"zig_py_bool_check", "zig_py_bytes_check",
             "zig_py_capsule_check_exact", "zig_py_coro_check_exact",
             "zig_py_dict_check", "zig_py_float_check", "zig_py_list_check",
             "zig_py_long_check", "zig_py_tuple_check",
             "zig_py_unicode_check"} |->
        CASE op = "zig_py_bool_check"          -> "bool"
          [] op = "zig_py_bytes_check"         -> "bytes"
          [] op = "zig_py_capsule_check_exact" -> "capsule"
          [] op = "zig_py_coro_check_exact"    -> "coroutine"
          [] op = "zig_py_dict_check"          -> "dict"
          [] op = "zig_py_float_check"         -> "float"
          [] op = "zig_py_list_check"          -> "list"
          [] op = "zig_py_long_check"          -> "long"
          [] op = "zig_py_tuple_check"         -> "tuple"
          [] op = "zig_py_unicode_check"       -> "unicode"]

\* the category of each object; an instance of a subtype (the OrderedDict)
\* counts with the category it derives from, as is-instance matching has it
CategoryOf ==
    [o \in {"None", "True", "False", "capsule", "fn_id", "fn_opt", "fn_raise",
            "int0", "bytes", "coro", "dict", "odict", "float", "list",
            "tuple", "str"} |->
        CASE o \in {"True", "False"} -> "bool"
          [] o = "bytes"             -> "bytes"
          [] o = "capsule"           -> "capsule"
          [] o = "coro"              -> "coroutine"
          [] o \in {"dict", "odict"} -> "dict"
          [] o = "float"             -> "float"
          [] o = "list"              -> "list"
          [] o = "int0"              -> "long"
          [] o = "tuple"             -> "tuple"
          [] o = "str"               -> "unicode"
          [] OTHER                   -> "other"]

\* C6 as stated: each of the ten predicates answers 1 for a handle of the
\* named category (a subtype instance included for the is-instance
\* predicates) and 0 for a handle of any other category.
C6_PredicateMatchesCategoryOnly ==
    last.op \in DOMAIN Named =>
        last.ival = (IF CategoryOf[last.a1] = Named[last.op] THEN 1 ELSE 0)

\* C6 amended: each predicate answers 1 for a handle of the named category (a
\* subtype instance included for the is-instance predicates) and 0 for every
\* other handle, except that the long predicate also answers 1 for the bool
\* handles True and False, bool being a subtype of int.
C6_PredicateMatchesCategoryOrSubtype ==
    last.op \in DOMAIN Named =>
        last.ival = (IF \/ CategoryOf[last.a1] = Named[last.op]
                        \/ (last.op = "zig_py_long_check"
                              /\ last.a1 \in {"True", "False"})
                     THEN 1 ELSE 0)

\* C6 witness: the long predicate answered 1 for True.
C6_Witness ==
    /\ last.op = "zig_py_long_check"
    /\ last.a1 = "True"
    /\ last.ival = 1

Borrowers ==
    DOMAIN Named \cup {"zig_is_py_none", "zig_isNone"}

\* the handles a call was given
Passed(c) ==
    {c.a1, c.a2} \ {"NULL"}

\* C7 as stated: every handle passed to isNone, to a type-check predicate or
\* to zig_call_function_with_arg is alive on return with the reference count
\* it had before the call, whatever the outcome.
C7_BorrowedCountUnchanged ==
    [][last'.op \in Borrowers \cup {"zig_call_function_with_arg"} =>
          \A h \in Passed(last') :
              refcnt'[h] = refcnt[h] /\ refcnt'[h] > 0]_vars

\* C7 amended: isNone and the type-check predicates leave every count as it
\* was.  zig_call_function_with_arg takes no reference away from its callable
\* or its argument: each is alive on return with a count no lower than before,
\* and the count is one higher exactly when the returned result is that same
\* handle, the result being a new reference.
C7_BorrowedNotReleased ==
    [][/\ last'.op \in Borrowers =>
              refcnt' = refcnt /\ \A h \in Passed(last') : refcnt'[h] > 0
       /\ last'.op = "zig_call_function_with_arg" =>
              \A h \in Passed(last') :
                  /\ refcnt'[h] > 0
                  /\ refcnt'[h] =
                         refcnt[h] + (IF last'.ret = h THEN 1 ELSE 0)]_vars

\* C7 witness: fn_id returned its argument, the capsule, whose count is now
\* one above its value before the call.
C7_Witness ==
    /\ last.op = "zig_call_function_with_arg"
    /\ last.a1 = "fn_id"
    /\ last.a2 = "capsule"
    /\ last.ret = "capsule"
    /\ refcnt["capsule"] = before["capsule"] + 1

\* C8 as stated: whenever zig_call_function_with_arg invokes the callable, it
\* passes exactly one positional argument, NULL argument included.
C8_AlwaysOneArgument ==
    (last.op = "zig_call_function_with_arg" /\ last.out # "notcallable") =>
        last.nargs = 1

\* C8 amended: whenever zig_call_function_with_arg invokes the callable, it
\* passes exactly one positional argument when arg is a handle, and none when
\* arg is NULL: NULL ends the variadic list.
C8_OneArgumentUnlessNull ==
    (last.op = "zig_call_function_with_arg" /\ last.out # "notcallable") =>
        last.nargs = (IF last.a2 = "NULL" THEN 0 ELSE 1)

\* C8 witness: fn_opt was called with arg NULL, received no argument and
\* returned None.
C8_Witness ==
    /\ last.op = "zig_call_function_with_arg"
    /\ last.a1 = "fn_opt"
    /\ last.a2 = "NULL"
    /\ last.nargs = 0
    /\ last.ret = "None"

WrapperAccessors ==
    {<<"zig_getPyNone", "None">>, <<"zig_getPyTrue", "True">>,
     <<"zig_getPyFalse", "False">>}

\* C9: each shim of python_wrapper.h returns the handle and leaves the
\* reference counts that its py_compat.c counterpart would from the same
\* state: the accessors return the singleton with its count raised by one,
\* zig_incref and zig_decref move the handle's count by one, zig_isNone is the
\* identity test.
C9_CopiesEquivalent ==
    [][/\ \A acc \in WrapperAccessors :
              last'.op = acc[1] =>
                  /\ last'.ret = acc[2]
                  /\ refcnt' = [refcnt EXCEPT ![acc[2]] = @ + 1]
       /\ last'.op = "zig_incref" =>
              refcnt' = [refcnt EXCEPT ![last'.a1] = @ + 1]
       /\ last'.op = "zig_decref" =>
              refcnt' = [refcnt EXCEPT ![last'.a1] = @ - 1]
       /\ last'.op = "zig_isNone" =>
              last'.ival = (IF last'.a1 = "None" THEN 1 ELSE 0)]_vars

\* C10: while the caller releases exactly the references it received, each
\* singleton's count stays at or above its initial value, and it is back at
\* the initial value once the caller holds no reference.
C10_SingletonsBalanced ==
    \A s \in {"None", "True", "False"} :
        /\ refcnt[s] >= SingletonRefs
        /\ (\A o \in DOMAIN owned : owned[o] = 0) => refcnt[s] = SingletonRefs

====
